---- MODULE Spec2Model ----
(***************************************************************************)
(* Model of the SPK desktop agent's startup orchestration                  *)
(* (desktop-agent/src-tauri/src/main.rs) and of its earnings milestone     *)
(* detector (desktop-agent/src-tauri/src/notifications.rs).                *)
(*                                                                         *)
(* Currency amounts (f64 in the source) are finite amounts counted in      *)
(* thousandths of one HBD, so 0.01 is 10 and 100.0 is 100000; only their   *)
(* order is used by the code.  Strings are sequences of Unicode code       *)
(* points; their length and their slices are taken in UTF-8 bytes, as      *)
(* String::len and the range index of str do.                              *)
(***************************************************************************)
EXTENDS Integers, Sequences, FiniteSets, TLC

VARIABLES
    \* ---- earnings / milestone detector ----
    total,        \* current cumulative earnings
    lastOld,      \* old_total of the latest check_milestone_crossed call
    lastResult,   \* what that call returned
    fired,        \* threshold -> number of calls that returned it
    monotone,     \* the totals seen so far never decreased
    reached,      \* the thresholds the total has been at or above
    updates,      \* number of earnings updates so far
    shown,        \* the milestone notification shown by the latest step
    \* ---- Task A (API start) ----
    pcA, apiResult, apiReachable, apiCalls,
    \* ---- Task B (daemon initialize / start / publish) ----
    pcB, initResult, startResult, initCalls, startCalls, shortId,
    publish,      \* how the status publication of Task B went
    \* ---- KuboManager behind Arc<RwLock<..>> ----
    daemon, peerId, lockWriter, lockReaders, lockQueue,
    \* ---- API handlers reading the manager ----
    pcH,
    \* ---- tray status item, error log ----
    title, log

milestoneVars ==
    <<total, lastOld, lastResult, fired, monotone, reached, updates, shown>>
taskAVars     == <<pcA, apiResult, apiReachable, apiCalls>>
taskBVars ==
    <<pcB, initResult, startResult, initCalls, startCalls, shortId, publish>>
managerVars   == <<daemon, peerId>>
lockVars      == <<lockWriter, lockReaders, lockQueue>>
handlerVars   == <<pcH>>
vars == <<milestoneVars, taskAVars, taskBVars, managerVars, lockVars,
          handlerVars, title, log>>

-----------------------------------------------------------------------------
(* Bounds of the model.                                                    *)

\* totals lie within MaxOffset thousandths of zero or of a threshold
MaxOffset == 1
\* earnings updates per behaviour
MaxUpdates == 4
\* peer identifiers have at most MaxIdLen characters
MaxIdLen == 13
\* concurrent API handlers
NumHandlers == 1

-----------------------------------------------------------------------------
(* Option<T>                                                               *)

Some(x) == [some |-> TRUE, val |-> x]
NoneF64 == [some |-> FALSE, val |-> 0]
NoneString == [some |-> FALSE, val |-> <<>>]

-----------------------------------------------------------------------------
(* notifications.rs                                                        *)

MILESTONE_THRESHOLDS == <<10, 100, 1000, 10000, 100000>>

ThresholdSet == {MILESTONE_THRESHOLDS[i] : i \in 1..Len(MILESTONE_THRESHOLDS)}

\* the lower bound of the test made inclusive
Crossed_Inclusive(old_total, new_total, threshold) ==
    old_total <= threshold /\ new_total >= threshold

\* the test without its lower bound
Crossed_NoLowerBound(old_total, new_total, threshold) ==
    new_total >= threshold

\* the upper bound of the test made strict
Crossed_StrictUpper(old_total, new_total, threshold) ==
    old_total < threshold /\ new_total > threshold

\* the test of line 31
Crossed(old_total, new_total, threshold) ==
    old_total < threshold /\ new_total >= threshold

RECURSIVE ScanFrom(_, _, _)
\* the for loop of lines 30-35, from the i-th threshold on
ScanFrom(i, old_total, new_total) ==
    IF i > Len(MILESTONE_THRESHOLDS) THEN NoneF64
    ELSE IF Crossed(old_total, new_total, MILESTONE_THRESHOLDS[i])
         THEN Some(MILESTONE_THRESHOLDS[i])
         ELSE ScanFrom(i + 1, old_total, new_total)

RECURSIVE ScanLast(_, _, _, _)
\* the loop without its early return: the last match wins
ScanLast(i, old_total, new_total, found) ==
    IF i > Len(MILESTONE_THRESHOLDS) THEN found
    ELSE ScanLast(i + 1, old_total, new_total,
                  IF Crossed(old_total, new_total, MILESTONE_THRESHOLDS[i])
                  THEN Some(MILESTONE_THRESHOLDS[i]) ELSE found)

check_milestone_crossed_last(old_total, new_total) ==
    ScanLast(1, old_total, new_total, NoneF64)

check_milestone_crossed(old_total, new_total) == ScanFrom(1, old_total, new_total)

\* f64::max on amounts that are numbers
F64Max(a, b) == IF a >= b THEN a ELSE b

\* f64::min
F64Min(a, b) == IF a <= b THEN a ELSE b

\* "{:.2}": the amount in hundredths, rounded to the nearest one.  The one
\* amount of the model that lies halfway is 0.005, whose f64 lies above the
\* half and is rounded up.
Format2(amount) == (amount + 5) \div 10

NoNotification ==
    [some |-> FALSE, total_earned |-> 0, milestone |-> 0, amount |-> 0, text |-> 0]

\* the body built with the smaller of the two amounts
send_milestone_notification_min(total_earned, milestone) ==
    [some |-> TRUE, total_earned |-> total_earned, milestone |-> milestone,
     amount |-> F64Min(milestone, total_earned),
     text |-> Format2(F64Min(milestone, total_earned))]

\* lines 12-17: the body shows milestone.max(total_earned) with two decimals
send_milestone_notification(total_earned, milestone) ==
    [some |-> TRUE, total_earned |-> total_earned, milestone |-> milestone,
     amount |-> F64Max(milestone, total_earned),
     text |-> Format2(F64Max(milestone, total_earned))]

\* amounts the earnings can take: around zero and around every threshold,
\* and the amounts the specification's examples use
Totals ==
    {b + d : b \in ThresholdSet \cup {0}, d \in (0 - MaxOffset)..MaxOffset}
        \cup {5, 20, 500, 50000}

\* a fresh process has earned nothing yet
MilestoneInit ==
    /\ total = 0
    /\ lastOld = total
    /\ lastResult = NoneF64
    /\ fired = [t \in ThresholdSet |-> 0]
    /\ monotone = TRUE
    /\ reached = {}
    /\ updates = 0
    /\ shown = NoNotification

\* the rewards collaborator moves the total from `total` to new_total,
\* asks the detector about the pair and notifies of the milestone returned
EarningsUpdate(new_total) ==
    /\ updates < MaxUpdates
    /\ LET r == check_milestone_crossed(total, new_total) IN
        /\ lastResult' = r
        /\ fired' = IF r.some THEN [fired EXCEPT ![r.val] = @ + 1] ELSE fired
        /\ shown' = IF r.some THEN send_milestone_notification(new_total, r.val)
                     ELSE NoNotification
    /\ lastOld' = total
    /\ total' = new_total
    /\ monotone' = (monotone /\ total <= new_total)
    /\ reached' = reached \cup {t \in ThresholdSet : new_total >= t}
    /\ updates' = updates + 1

\* send_milestone_notification called on its own, with any two amounts
MilestoneNotification(total_earned, milestone) ==
    /\ shown' = send_milestone_notification(total_earned, milestone)
    /\ UNCHANGED <<total, lastOld, lastResult, fired, monotone, reached, updates>>

-----------------------------------------------------------------------------
(* Strings: sequences of code points, measured and sliced in UTF-8 bytes   *)

\* bytes of one code point in UTF-8
Utf8Width(c) ==
    IF c < 128 THEN 1 ELSE IF c < 2048 THEN 2 ELSE IF c < 65536 THEN 3 ELSE 4

RECURSIVE ByteOffset(_, _)
\* byte offset at which the i-th character of s starts (i in 1..Len(s)+1)
ByteOffset(s, i) ==
    IF i <= 1 THEN 0 ELSE ByteOffset(s, i - 1) + Utf8Width(s[i - 1])

\* String::len
StrLen(s) == ByteOffset(s, Len(s) + 1)

\* str::is_char_boundary
IsCharBoundary(s, b) == \E i \in 1..(Len(s) + 1) : ByteOffset(s, i) = b

\* &s[a..b] where a and b are character boundaries
ByteSlice(s, a, b) ==
    LET idx == {i \in 1..Len(s) : ByteOffset(s, i) >= a /\ ByteOffset(s, i) < b} IN
    IF idx = {} THEN <<>>
    ELSE LET lo == CHOOSE i \in idx : \A j \in idx : i <= j IN
         [k \in 1..Cardinality(idx) |-> s[lo + k - 1]]

Ellipsis == <<46, 46, 46>>                                   \* "..."
OnlinePrefix == <<79, 110, 108, 105, 110, 101, 58, 32>>      \* "Online: "
StatusStarting ==                                    \* "Status: Starting..."
    <<83, 116, 97, 116, 117, 115, 58, 32,
      83, 116, 97, 114, 116, 105, 110, 103, 46, 46, 46>>

\* the identifiers longer than this many bytes are shortened (line 113)
ShortIdMax == 12
\* bytes kept at each end (line 114)
ShortIdKeep == 6

Formatted(s) == [panic |-> FALSE, out |-> s]
Panicked == [panic |-> TRUE, out |-> <<>>]

\* lines 113-117: a range index that is not on a character boundary panics
short_id(peer_id) ==
    LET n == StrLen(peer_id) IN
    IF n > ShortIdMax
    THEN IF IsCharBoundary(peer_id, ShortIdKeep)
            /\ IsCharBoundary(peer_id, n - ShortIdKeep)
         THEN Formatted(ByteSlice(peer_id, 0, ShortIdKeep) \o Ellipsis
                        \o ByteSlice(peer_id, n - ShortIdKeep, n))
         ELSE Panicked
    ELSE Formatted(peer_id)

\* Option::unwrap_or_default on Option<String>
unwrap_or_default(o) == IF o.some THEN o.val ELSE <<>>

\* format!("Online: {}", short_id) of line 118
OnlineTitle(short) == OnlinePrefix \o short

\* n characters, all ASCII and pairwise different (k = 0), or with the k-th
\* one a two-byte character
PeerIdWith(k, n) == [i \in 1..n |-> IF i = k THEN 233 ELSE 64 + i]
\* n two-byte characters
WidePeerId(n) == [i \in 1..n |-> 300 + i]

\* Peer identifiers the daemon may report: ASCII ones of every length, the
\* longest with one two-byte character at its start, across byte 6 or at
\* its end, and two of two-byte characters only
PeerIds ==
    {PeerIdWith(0, n) : n \in 0..MaxIdLen}
        \cup {PeerIdWith(k, MaxIdLen) : k \in {1, ShortIdKeep, MaxIdLen}}
        \cup {WidePeerId(n) : n \in {MaxIdLen - ShortIdKeep, MaxIdLen}}

\* the identifier the daemon reports after a handler changed its identity:
\* ASCII, of the longest length, and none of PeerIds
RotatedPeerId == [i \in 1..MaxIdLen |-> 96 + i]

-----------------------------------------------------------------------------
(* The manager handle: Arc<tokio::sync::RwLock<KuboManager>>               *)

TaskB == [task |-> "B", n |-> 0]
Handler(h) == [task |-> "H", n |-> h]
NoOne == [task |-> "none", n |-> 0]
Handlers == 1..NumHandlers

\* the lock is fair: requests are served in the order they were made
Enqueue(who, mode) == lockQueue' = Append(lockQueue, [who |-> who, mode |-> mode])

\* a write guard excludes every other guard, a read guard excludes writers
CanGrant(req) ==
    IF req.mode = "write"
    THEN lockWriter = NoOne /\ lockReaders = {}
    ELSE lockWriter = NoOne

\* dropping the write guard
ReleaseWrite == lockWriter' = NoOne /\ UNCHANGED <<lockReaders, lockQueue>>

\* dropping a read guard
ReleaseRead(who) ==
    lockReaders' = lockReaders \ {who} /\ UNCHANGED <<lockWriter, lockQueue>>

\* KuboManager::get_peer_id
get_peer_id == peerId

\* what a holder of a read guard sees of the manager
Observed == daemon

\* the daemon states outside initialize() and start_daemon()
SettledStates == {"not_initialized", "running", "failed"}

-----------------------------------------------------------------------------
(* Construction: main up to the end of the setup closure                   *)

StartupInit ==
    /\ pcA = "spawned" /\ apiResult = "none" /\ apiReachable = FALSE
    /\ apiCalls = 0
    /\ pcB = "spawned" /\ initResult = "none" /\ startResult = "none"
    /\ initCalls = 0 /\ startCalls = 0
    /\ shortId = Formatted(<<>>)
    /\ publish = "none"
    /\ daemon = "not_initialized" /\ peerId = NoneString
    /\ lockWriter = NoOne /\ lockReaders = {} /\ lockQueue = <<>>
    /\ pcH = [h \in Handlers |-> "idle"]
    /\ title = StatusStarting
    /\ log = {}

Init == StartupInit /\ MilestoneInit

-----------------------------------------------------------------------------
(* Task A, lines 82-87                                                     *)

\* the API start made to wait until no writer holds the manager
ApiInvoke_NeedsManager ==
    /\ pcA = "spawned" /\ lockWriter = NoOne
    /\ pcA' = "api_call"
    /\ apiCalls' = apiCalls + 1
    /\ UNCHANGED <<apiResult, apiReachable, taskBVars, managerVars, lockVars,
                   handlerVars, title, log, milestoneVars>>

\* api::start_api_server(kubo_for_api) is called
ApiInvoke ==
    /\ pcA = "spawned"
    /\ pcA' = "api_call"
    /\ apiCalls' = apiCalls + 1
    /\ UNCHANGED <<apiResult, apiReachable, taskBVars, managerVars, lockVars,
                   handlerVars, title, log, milestoneVars>>

\* the server is listening while the call is still pending
ApiServe ==
    /\ pcA = "api_call" /\ ~apiReachable
    /\ apiReachable' = TRUE
    /\ UNCHANGED <<pcA, apiResult, apiCalls, taskBVars, managerVars, lockVars,
                   handlerVars, title, log, milestoneVars>>

\* a failed start tried a second time
ApiReturn_RetryOnce(r) ==
    /\ pcA = "api_call"
    /\ pcA' = IF r = "err" /\ apiCalls < 2 THEN "spawned" ELSE "done"
    /\ apiResult' = r
    /\ apiReachable' = (r = "ok")
    /\ log' = IF r = "err" THEN log \cup {"Failed to start API server"} ELSE log
    /\ UNCHANGED <<apiCalls, taskBVars, managerVars, lockVars, handlerVars,
                   title, milestoneVars>>

\* the call returns; an error is logged and the task ends either way
ApiReturn(r) ==
    /\ pcA = "api_call"
    /\ pcA' = "done"
    /\ apiResult' = r
    /\ apiReachable' = (r = "ok")
    /\ log' = IF r = "err" THEN log \cup {"Failed to start API server"} ELSE log
    /\ UNCHANGED <<apiCalls, taskBVars, managerVars, lockVars, handlerVars,
                   title, milestoneVars>>

\* the steps of the task itself: the call and its return
TaskARun == ApiInvoke \/ (\E r \in {"ok", "err"} : ApiReturn(r))

TaskA == TaskARun \/ ApiServe

-----------------------------------------------------------------------------
(* API handlers: readers and writers of the manager handle                 *)

\* a request arrives and its handler asks for a read or for a write guard
HandlerRequest(h, mode) ==
    /\ apiReachable /\ pcH[h] = "idle"
    /\ pcH' = [pcH EXCEPT ![h] = "waiting"]
    /\ Enqueue(Handler(h), mode)
    /\ UNCHANGED <<lockWriter, lockReaders, taskAVars, taskBVars,
                   managerVars, title, log, milestoneVars>>

\* a handler holding the write guard changes the identity of the running
\* daemon
HandlerMutate(h) ==
    /\ pcH[h] = "writing" /\ lockWriter = Handler(h)
    /\ daemon = "running" /\ peerId # Some(RotatedPeerId)
    /\ peerId' = Some(RotatedPeerId)
    /\ UNCHANGED <<daemon, lockVars, handlerVars, taskAVars, taskBVars,
                   title, log, milestoneVars>>

\* the handler ends and drops its guard
HandlerRelease(h) ==
    /\ pcH[h] \in {"reading", "writing"}
    /\ pcH' = [pcH EXCEPT ![h] = "idle"]
    /\ IF pcH[h] = "writing" THEN ReleaseWrite ELSE ReleaseRead(Handler(h))
    /\ UNCHANGED <<taskAVars, taskBVars, managerVars, title, log, milestoneVars>>

-----------------------------------------------------------------------------
(* The lock hands itself to the request at the head of its queue           *)

Grant ==
    /\ lockQueue # <<>>
    /\ LET req == Head(lockQueue) IN
        /\ CanGrant(req)
        /\ lockQueue' = Tail(lockQueue)
        /\ IF req.mode = "write"
           THEN lockWriter' = req.who /\ UNCHANGED lockReaders
           ELSE lockReaders' = lockReaders \cup {req.who} /\ UNCHANGED lockWriter
        /\ IF req.who = TaskB
           THEN /\ pcB' = IF req.mode = "write" THEN "have_write" ELSE "have_read"
                /\ UNCHANGED pcH
           ELSE /\ pcH' = [pcH EXCEPT ![req.who.n] =
                            IF req.mode = "write" THEN "writing" ELSE "reading"]
                /\ UNCHANGED pcB
    /\ UNCHANGED <<initResult, startResult, initCalls, startCalls, shortId, publish,
                   taskAVars, managerVars, title, log, milestoneVars>>

-----------------------------------------------------------------------------
(* Task B, lines 89-120                                                    *)

\* Task B made to start only once the API start has not failed
BWriteRequest_AfterApi ==
    /\ pcB = "spawned" /\ apiResult # "err"
    /\ pcB' = "wait_write"
    /\ Enqueue(TaskB, "write")
    /\ UNCHANGED <<lockWriter, lockReaders, initResult, startResult, initCalls,
                   startCalls, shortId, publish, taskAVars, managerVars, handlerVars,
                   title, log, milestoneVars>>

\* line 93: kubo.write() is awaited
BWriteRequest ==
    /\ pcB = "spawned"
    /\ pcB' = "wait_write"
    /\ Enqueue(TaskB, "write")
    /\ UNCHANGED <<lockWriter, lockReaders, initResult, startResult, initCalls,
                   startCalls, shortId, publish, taskAVars, managerVars, handlerVars,
                   title, log, milestoneVars>>

\* line 95: manager.initialize() is called under the write guard
BInitializeCall ==
    /\ pcB = "have_write"
    /\ pcB' = "initialize"
    /\ initCalls' = initCalls + 1
    /\ daemon' = "initializing"
    /\ UNCHANGED <<initResult, startResult, startCalls, shortId, publish, peerId,
                   taskAVars, lockVars, handlerVars, title, log, milestoneVars>>

\* initialize() under a guard of its own, dropped when the call returns
BInitializeReturn_DropsGuard(r) ==
    /\ pcB = "initialize"
    /\ initResult' = r
    /\ IF r = "ok"
       THEN /\ pcB' = "initialized"
            /\ daemon' = "initialized"
            /\ UNCHANGED log
       ELSE /\ pcB' = "done_err"
            /\ daemon' = "failed"
            /\ log' = log \cup {"Failed to initialize Kubo"}
    /\ ReleaseWrite
    /\ UNCHANGED <<startResult, initCalls, startCalls, shortId, publish, peerId,
                   taskAVars, handlerVars, title, milestoneVars>>

\* the error branch without its return: the failure is logged and the task
\* goes on
BInitializeReturn_NoAbort(r) ==
    /\ pcB = "initialize"
    /\ initResult' = r
    /\ pcB' = "initialized"
    /\ daemon' = IF r = "ok" THEN "initialized" ELSE "failed"
    /\ log' = IF r = "ok" THEN log ELSE log \cup {"Failed to initialize Kubo"}
    /\ UNCHANGED <<startResult, initCalls, startCalls, shortId, publish, peerId,
                   taskAVars, lockVars, handlerVars, title, milestoneVars>>

\* the error exit leaving the write guard behind
BInitializeReturn_KeepsGuard(r) ==
    /\ pcB = "initialize"
    /\ initResult' = r
    /\ pcB' = IF r = "ok" THEN "initialized" ELSE "done_err"
    /\ daemon' = IF r = "ok" THEN "initialized" ELSE "failed"
    /\ log' = IF r = "ok" THEN log ELSE log \cup {"Failed to initialize Kubo"}
    /\ UNCHANGED <<startResult, initCalls, startCalls, shortId, publish, peerId,
                   taskAVars, lockVars, handlerVars, title, milestoneVars>>

\* lines 95-98: initialize() returns; on an error the task logs it and
\* returns, which drops the write guard
BInitializeReturn(r) ==
    /\ pcB = "initialize"
    /\ initResult' = r
    /\ IF r = "ok"
       THEN /\ pcB' = "initialized"
            /\ daemon' = "initialized"
            /\ UNCHANGED <<log, lockVars>>
       ELSE /\ pcB' = "done_err"
            /\ daemon' = "failed"
            /\ log' = log \cup {"Failed to initialize Kubo"}
            /\ ReleaseWrite
    /\ UNCHANGED <<startResult, initCalls, startCalls, shortId, publish, peerId,
                   taskAVars, handlerVars, title, milestoneVars>>

\* line 100: manager.start_daemon() is called under the same guard
BStartDaemonCall ==
    /\ pcB = "initialized"
    /\ pcB' = "start_daemon"
    /\ startCalls' = startCalls + 1
    /\ daemon' = "starting"
    /\ UNCHANGED <<initResult, startResult, initCalls, shortId, publish, peerId,
                   taskAVars, lockVars, handlerVars, title, log, milestoneVars>>

\* the error branch without its return
BStartDaemonReturn_NoAbort(r, id) ==
    /\ pcB = "start_daemon"
    /\ startResult' = r
    /\ pcB' = "started"
    /\ daemon' = IF r = "ok" THEN "running" ELSE "failed"
    /\ peerId' = IF r = "ok" THEN id ELSE peerId
    /\ log' = IF r = "ok" THEN log ELSE log \cup {"Failed to start Kubo daemon"}
    /\ UNCHANGED <<initResult, initCalls, startCalls, shortId, publish, taskAVars,
                   lockVars, handlerVars, title, milestoneVars>>

\* lines 100-103: start_daemon() returns; the running daemon has whatever
\* peer identifier it reports, or none
BStartDaemonReturn(r, id) ==
    /\ pcB = "start_daemon"
    /\ startResult' = r
    /\ IF r = "ok"
       THEN /\ pcB' = "started"
            /\ daemon' = "running"
            /\ peerId' = id
            /\ UNCHANGED <<log, lockVars>>
       ELSE /\ pcB' = "done_err"
            /\ daemon' = "failed"
            /\ log' = log \cup {"Failed to start Kubo daemon"}
            /\ ReleaseWrite
            /\ UNCHANGED peerId
    /\ UNCHANGED <<initResult, initCalls, startCalls, shortId, publish, taskAVars,
                   handlerVars, title, milestoneVars>>

\* the write guard declared outside a block: it lives on
BReleaseWrite_KeepsGuard ==
    /\ pcB = "started"
    /\ pcB' = "ready"
    /\ UNCHANGED <<initResult, startResult, initCalls, startCalls, shortId, publish,
                   taskAVars, managerVars, lockVars, handlerVars, title, log,
                   milestoneVars>>

\* line 104: the block ends and the write guard is dropped
BReleaseWrite ==
    /\ pcB = "started"
    /\ pcB' = "ready"
    /\ ReleaseWrite
    /\ UNCHANGED <<initResult, startResult, initCalls, startCalls, shortId, publish,
                   taskAVars, managerVars, handlerVars, title, log,
                   milestoneVars>>

\* line 110: kubo.read() is awaited
BReadRequest ==
    /\ pcB = "ready"
    /\ pcB' = "wait_read"
    /\ Enqueue(TaskB, "read")
    /\ UNCHANGED <<lockWriter, lockReaders, initResult, startResult, initCalls,
                   startCalls, shortId, publish, taskAVars, managerVars, handlerVars,
                   title, log, milestoneVars>>

\* line 111: without a tray the task ends, dropping the read guard
BTrayLookup(present) ==
    /\ pcB = "have_read"
    /\ IF present
       THEN pcB' = "tray_found" /\ UNCHANGED lockVars
       ELSE pcB' = "done_ok" /\ ReleaseRead(TaskB)
    /\ publish' = IF present THEN publish ELSE "no_tray"
    /\ UNCHANGED <<initResult, startResult, initCalls, startCalls, shortId,
                   taskAVars, managerVars, handlerVars, title, log,
                   milestoneVars>>

\* lines 112-117: the short identifier is computed; a panic unwinds the
\* task, which drops the read guard
\* the read guard dropped as soon as the identifier is formatted
BFormat_DropsGuard ==
    /\ pcB = "tray_found"
    /\ LET r == short_id(unwrap_or_default(get_peer_id)) IN
        /\ shortId' = r
        /\ pcB' = IF r.panic THEN "panicked" ELSE "formatted"
    /\ ReleaseRead(TaskB)
    /\ UNCHANGED <<initResult, startResult, initCalls, startCalls, publish,
                   taskAVars, managerVars, handlerVars, title, log,
                   milestoneVars>>

BFormat ==
    /\ pcB = "tray_found"
    /\ LET r == short_id(unwrap_or_default(get_peer_id)) IN
        /\ shortId' = r
        /\ IF r.panic
           THEN pcB' = "panicked" /\ ReleaseRead(TaskB)
           ELSE pcB' = "formatted" /\ UNCHANGED lockVars
    /\ UNCHANGED <<initResult, startResult, initCalls, startCalls, publish,
                   taskAVars, managerVars, handlerVars, title, log,
                   milestoneVars>>

\* a failed set_title treated as an error of the task
BSetTitle_Propagates(ok) ==
    /\ pcB = "formatted"
    /\ pcB' = IF ok THEN "done_ok" ELSE "done_err"
    /\ title' = IF ok THEN OnlineTitle(shortId.out) ELSE title
    /\ publish' = IF ok THEN "ok" ELSE "set_title_failed"
    /\ log' = IF ok THEN log ELSE log \cup {"Failed to update tray"}
    /\ ReleaseRead(TaskB)
    /\ UNCHANGED <<initResult, startResult, initCalls, startCalls, shortId,
                   taskAVars, managerVars, handlerVars, milestoneVars>>

\* lines 118-120: set_title, whose failure is ignored; the task ends
BSetTitle(ok) ==
    /\ pcB = "formatted"
    /\ pcB' = "done_ok"
    /\ title' = IF ok THEN OnlineTitle(shortId.out) ELSE title
    /\ publish' = IF ok THEN "ok" ELSE "set_title_failed"
    /\ ReleaseRead(TaskB)
    /\ UNCHANGED <<initResult, startResult, initCalls, startCalls, shortId,
                   taskAVars, managerVars, handlerVars, log, milestoneVars>>

OptionalPeerIds == {NoneString} \cup {Some(id) : id \in PeerIds}

TaskBStep ==
    \/ BWriteRequest
    \/ BInitializeCall
    \/ \E r \in {"ok", "err"} : BInitializeReturn(r)
    \/ BStartDaemonCall
    \/ \E r \in {"ok", "err"}, id \in OptionalPeerIds : BStartDaemonReturn(r, id)
    \/ BReleaseWrite
    \/ BReadRequest
    \/ \E present \in BOOLEAN : BTrayLookup(present)
    \/ BFormat
    \/ \E ok \in BOOLEAN : BSetTitle(ok)

HandlerStep ==
    \E h \in Handlers :
        \/ \E mode \in {"read", "write"} : HandlerRequest(h, mode)
        \/ HandlerMutate(h)
        \/ HandlerRelease(h)

-----------------------------------------------------------------------------
(* Specifications                                                          *)

NextStartup == TaskA \/ TaskBStep \/ HandlerStep \/ Grant

NextMilestone ==
    /\ \E new_total \in Totals : EarningsUpdate(new_total)
    /\ UNCHANGED <<taskAVars, taskBVars, managerVars, lockVars, handlerVars,
                   title, log>>

Next == NextStartup \/ NextMilestone

Spec == Init /\ [][Next]_vars

\* the startup tasks alone
SpecStartup == Init /\ [][NextStartup]_vars

\* the earnings updates alone
SpecMilestone == Init /\ [][NextMilestone]_vars

NextNotify ==
    /\ \E total_earned \in Totals, milestone \in Totals :
            MilestoneNotification(total_earned, milestone)
    /\ UNCHANGED <<taskAVars, taskBVars, managerVars, lockVars, handlerVars,
                   title, log>>

\* the milestone notification alone, on every pair of amounts
SpecNotify == Init /\ [][NextNotify]_vars

\* The runtime keeps polling every spawned task, every collaborator call
\* returns, the lock serves its queue and a handler ends its request.
FairStartup ==
    /\ SpecStartup
    /\ WF_vars(TaskARun)
    /\ WF_vars(TaskBStep)
    /\ WF_vars(Grant)
    /\ \A h \in Handlers : WF_vars(HandlerRelease(h))

\* Only Task A is scheduled and only its collaborator returns: Task B, the
\* lock and the handlers may stop anywhere, for ever.
FairTaskA ==
    /\ SpecStartup
    /\ WF_vars(TaskARun)

-----------------------------------------------------------------------------
(* Properties of the milestone detector                                    *)

\* the thresholds t with old < t <= new
CrossedSet(old, new) == {t \in ThresholdSet : old < t /\ t <= new}

Least(S) == CHOOSE t \in S : \A u \in S : t <= u

\* C1: for old_total < new_total the call returns the smallest threshold t
\* with old_total < t <= new_total, none when there is no such threshold;
\* (0.5, 50.0) gives 1.0, the lowest crossed threshold.
C1_LowestCrossed ==
    (updates > 0 /\ lastOld < total) =>
        /\ lastResult = IF CrossedSet(lastOld, total) = {} THEN NoneF64
                        ELSE Some(Least(CrossedSet(lastOld, total)))
        /\ (lastOld = 500 /\ total = 50000) => lastResult = Some(1000)

\* an update from 0.5 to 50.0, which passes 1.0 and 10.0, returned 1.0
C1_Witness ==
    /\ updates > 0 /\ lastOld = 500 /\ total = 50000
    /\ Cardinality(CrossedSet(lastOld, total)) = 2
    /\ lastResult = Some(1000)

\* C2: check_milestone_crossed(x, x) is none for every x, a threshold value
\* and a negative x included.
C2_NoChangeNoCrossing ==
    (updates > 0 /\ lastOld = total) => lastResult = NoneF64

\* an update that left the total on a threshold
C2_Witness ==
    updates > 0 /\ lastOld = total /\ total = 100000 /\ lastResult = NoneF64

\* C10: while the totals never decrease, every threshold is returned by at
\* most one of the calls made on consecutive totals.
C10_AtMostOncePerThreshold ==
    monotone => \A t \in ThresholdSet : fired[t] <= 1

\* a threshold was returned and a later call started at or above it
C10_Witness ==
    /\ monotone /\ updates >= 2
    /\ \E t \in ThresholdSet : fired[t] = 1 /\ lastOld >= t /\ total > lastOld

\* the update from total to total' takes the total from below t to t or
\* above after it had been at or above t before
Recrosses(t) == t \in reached /\ total < t /\ total' >= t

\* C11 as stated: an update that takes the total from below a threshold t
\* it had reached before to t or above makes the call return t again.
C11_RefiresThreshold ==
    [][\A t \in ThresholdSet : Recrosses(t) => lastResult' = Some(t)]_vars

\* C11 as amended: such an update makes the call return the lowest
\* threshold it crosses, whatever was returned before; that is t itself
\* exactly when the update crosses no threshold below t.
C11_RefiresLowestCrossed ==
    [][\A t \in ThresholdSet :
        Recrosses(t) =>
            /\ lastResult' = Some(Least(CrossedSet(total, total')))
            /\ (lastResult' = Some(t)) <=> (\A u \in ThresholdSet : u < t => total >= u)
      ]_vars

\* a threshold has been returned by two calls, the latest one among them
C11_Witness ==
    \E t \in ThresholdSet :
        fired[t] = 2 /\ lastResult = Some(t) /\ lastOld < t /\ total >= t

\* C19: while the totals never decrease, a threshold that an update
\* crosses together with a lower one is not returned by that call, and a
\* threshold the total has passed without its being returned is not
\* returned by any later call either.
C19_SkippedMilestoneIsLost ==
    [][monotone' =>
        \A t \in ThresholdSet :
            /\ (t \in CrossedSet(total, total')
                    /\ t # Least(CrossedSet(total, total')))
                => (lastResult' # Some(t) /\ fired'[t] = 0)
            /\ (t <= total /\ fired[t] = 0) => fired'[t] = 0
      ]_vars

\* a threshold was passed without being returned, and a later call, which
\* returned a higher one, was made
C19_Witness ==
    /\ monotone /\ updates >= 2
    /\ \E t \in ThresholdSet : t <= lastOld /\ fired[t] = 0
    /\ lastResult.some

\* C16 as stated: the amount displayed is max(milestone, total_earned),
\* and so never a milestone value larger than the actual total.
C16_MaxGuardsAgainstLargerMilestone ==
    shown.some =>
        /\ shown.amount >= shown.milestone /\ shown.amount >= shown.total_earned
        /\ shown.amount \in {shown.milestone, shown.total_earned}
        /\ shown.amount <= shown.total_earned

\* C16 as amended: the body shows, with two decimals, the larger of
\* milestone and total_earned; it is the milestone whenever the milestone
\* is larger than the total.
C16_DisplaysMax ==
    shown.some =>
        /\ shown.amount >= shown.milestone /\ shown.amount >= shown.total_earned
        /\ shown.amount \in {shown.milestone, shown.total_earned}
        /\ shown.text = Format2(shown.amount)
        /\ shown.milestone > shown.total_earned => shown.amount = shown.milestone

\* a notification for the milestone 1.0 with a total of 0.5 shows 1.00
C16_Witness ==
    /\ shown.some /\ shown.total_earned = 500 /\ shown.milestone = 1000
    /\ shown.amount = 1000 /\ shown.text = 100

-----------------------------------------------------------------------------
(* Properties of the startup tasks                                         *)

\* Task B holds the write guard
ExclusivePhase == {"have_write", "initialize", "initialized", "start_daemon", "started"}

\* Task B has ended, one way or another
BEnded == {"done_ok", "done_err", "panicked"}

ApiFailureLogged == "Failed to start API server" \in log
DaemonFailureLogged ==
    "Failed to initialize Kubo" \in log \/ "Failed to start Kubo daemon" \in log

\* C3: with every collaborator call returning and fair scheduling, both
\* tasks eventually are in a terminal state, each a success or a logged
\* failure, whichever of them runs first.
C3_BothEndInSuccessOrLoggedFailure ==
    <>( /\ pcA = "done" /\ (apiResult = "ok" \/ ApiFailureLogged)
        /\ \/ pcB = "done_ok"
           \/ pcB = "done_err" /\ DaemonFailureLogged )

\* C4: Task A can always take its next step and does reach its terminal
\* state, whatever Task B does: also while Task B holds the write guard and
\* when Task B never returns from initialize() or start_daemon().
C4_TaskAIndependentOfTaskB ==
    /\ [](pcA # "done" => ENABLED TaskARun)
    /\ <>(pcA = "done")

\* Task A has ended while Task B is inside initialize() or start_daemon(),
\* holding the write guard
C4_Witness ==
    /\ pcA = "done"
    /\ pcB \in {"initialize", "start_daemon"}
    /\ lockWriter = TaskB

\* C5: while Task B is in its exclusive phase no reader holds the handle
\* (a read attempt stays blocked), and whoever does hold a read guard sees a
\* settled daemon state, the pre-initialization one as long as Task B has
\* not obtained the write guard; never an intermediate one.
C5_LockDiscipline ==
    /\ (pcB \in ExclusivePhase) <=> (lockWriter = TaskB)
    /\ pcB \in ExclusivePhase => lockReaders = {}
    /\ \A h \in Handlers :
        pcH[h] = "reading" =>
            /\ Handler(h) \in lockReaders
            /\ pcB \notin ExclusivePhase
            /\ Observed \in SettledStates
            /\ pcB \in {"spawned", "wait_write"} => Observed = "not_initialized"

\* a handler's read attempt is blocked while Task B is inside initialize()
\* or start_daemon() and the daemon state is an intermediate one
C5_Witness ==
    /\ pcB \in {"initialize", "start_daemon"}
    /\ daemon \in {"initializing", "starting"}
    /\ \E h \in Handlers : pcH[h] = "waiting"

\* C6: when initialize() fails, Task B ends there: start_daemon() is never
\* called and the failure is logged.
C6_InitializeFailureAborts ==
    initResult = "err" =>
        /\ pcB = "done_err"
        /\ startCalls = 0 /\ startResult = "none"
        /\ "Failed to initialize Kubo" \in log

\* initialize() has failed
C6_Witness == initResult = "err" /\ initCalls = 1 /\ pcB = "done_err"

\* C7: when initialize() or start_daemon() has failed, the status item
\* still reads "Status: Starting...", in every later state.
C7_NoOnlineAfterFailure ==
    (initResult = "err" \/ startResult = "err") => title = StatusStarting

\* start_daemon() has failed after a successful initialize()
C7_Witness ==
    /\ initResult = "ok" /\ startResult = "err" /\ pcB = "done_err"
    /\ title = StatusStarting

\* C8: a failure ends its own task only.  After a failed API start Task A
\* has ended and Task B still runs to its end; after a failed initialize()
\* or start_daemon() Task B has ended with the failure logged and Task A
\* still runs to its end; and no step that returns a failure puts a task
\* in a panicked state.
C8_FailuresAreLocal ==
    /\ [](apiResult = "err" => pcA = "done" /\ <>(pcB \in BEnded))
    /\ []((initResult = "err" \/ startResult = "err") =>
            pcB = "done_err" /\ <>(pcA = "done"))
    /\ [][pcB' = "panicked" => pcB \in {"tray_found", "panicked"}]_vars

\* the API start failed, and Task B initialized and started the daemon and
\* published the status
C8_Witness ==
    /\ apiResult = "err"
    /\ pcB = "done_ok" /\ initResult = "ok" /\ startResult = "ok"
    /\ title # StatusStarting

\* what the short identifier is to be, in characters
ExpectedShortId(s) ==
    IF Len(s) <= 12 THEN s
    ELSE SubSeq(s, 1, 6) \o Ellipsis \o SubSeq(s, Len(s) - 5, Len(s))

\* C9: the short identifier of an identifier of at most 12 characters is
\* the identifier, that of a longer one is its first 6 characters, "..."
\* and its last 6 characters, that of an absent one is empty; the status
\* published is "Online: " followed by it.
C9_ShortIdFormat ==
    LET id == unwrap_or_default(get_peer_id) IN
    /\ pcB \in {"formatted", "panicked"} => shortId = Formatted(ExpectedShortId(id))
    /\ (pcB = "done_ok" /\ title # StatusStarting) =>
            title = OnlinePrefix \o ExpectedShortId(id)


\* Task B has a request of this mode waiting in the lock's queue
TaskBWaitsFor(mode) ==
    \E i \in 1..Len(lockQueue) : lockQueue[i] = [who |-> TaskB, mode |-> mode]

\* C12: in one run the API start function is called exactly once, and
\* initialize() and start_daemon() at most once each, whatever they return.
C12_NoRetry ==
    /\ [](/\ apiCalls <= 1 /\ initCalls <= 1 /\ startCalls <= 1
          /\ pcA # "spawned" => apiCalls = 1)
    /\ <>[](apiCalls = 1)

\* every call was made once and the API start and start_daemon() failed
C12_Witness ==
    /\ pcA = "done" /\ apiResult = "err" /\ apiCalls = 1
    /\ pcB = "done_err" /\ startResult = "err" /\ initCalls = 1 /\ startCalls = 1

\* C13: the short-identifier formatting yields an output for every peer
\* identifier and never panics.
C13_ShortIdNeverPanics == pcB # "panicked" /\ ~shortId.panic

\* C14: Task B holds the write guard when it calls initialize() and
\* start_daemon(), calls start_daemon() only after initialize() succeeded,
\* asks for the read guard only after it dropped the write guard, and sets
\* the title only after start_daemon() succeeded and under the read guard.
C14_TaskBSequential ==
    /\ [](/\ pcB \in {"initialize", "initialized", "start_daemon", "started"}
                => lockWriter = TaskB
          /\ startCalls > 0 => initResult = "ok"
          /\ (TaskBWaitsFor("read") \/ TaskB \in lockReaders)
                => /\ lockWriter # TaskB /\ ~TaskBWaitsFor("write")
                   /\ startResult = "ok"
          /\ title # StatusStarting => startResult = "ok")
    /\ [][initCalls' # initCalls => lockWriter = TaskB /\ startCalls = 0]_vars
    /\ [][startCalls' # startCalls => lockWriter = TaskB /\ initResult = "ok"]_vars
    /\ [][title' # title =>
            /\ TaskB \in lockReaders /\ lockWriter = NoOne
            /\ startResult = "ok"
            /\ title' = OnlinePrefix \o shortId.out]_vars

\* Task B went through all its steps and published the status
C14_Witness ==
    /\ pcB = "done_ok" /\ initCalls = 1 /\ startCalls = 1
    /\ title = OnlinePrefix \o shortId.out

\* C17: once Task B has ended, by success, by a failed initialize() or by
\* a failed start_daemon(), it holds neither guard and waits for none, so
\* it blocks no other user of the handle.
C17_NoLockHeldAfterEnd ==
    pcB \in BEnded =>
        /\ lockWriter # TaskB
        /\ TaskB \notin lockReaders
        /\ ~TaskBWaitsFor("read") /\ ~TaskBWaitsFor("write")
        /\ (lockQueue # <<>> /\ lockWriter = NoOne /\ lockReaders = {})
              => ENABLED Grant

\* after Task B ended on a failed initialize() a handler holds a read guard
C17_Witness ==
    /\ pcB = "done_err" /\ initResult = "err"
    /\ \E h \in Handlers : pcH[h] = "reading"


\* the status publication failed: no tray, or set_title returned an error
PublishFailed == publish \in {"no_tray", "set_title_failed"}

\* C15: a failed status publication after a successful daemon start is
\* swallowed: Task B ends normally, nothing is logged, the daemon state
\* stays as it was (running) and no guard is kept.
C15_PublishFailureSwallowed ==
    /\ [](PublishFailed =>
            /\ pcB = "done_ok"
            /\ initResult = "ok" /\ startResult = "ok"
            /\ ~DaemonFailureLogged /\ "Failed to update tray" \notin log
            /\ daemon = "running"
            /\ title = StatusStarting
            /\ TaskB \notin lockReaders)
    /\ [][(PublishFailed' /\ ~PublishFailed) =>
            /\ daemon' = daemon /\ peerId' = peerId /\ log' = log
            /\ pcB' = "done_ok"]_vars

\* set_title failed after the daemon was started, and Task B ended normally
C15_Witness ==
    /\ publish = "set_title_failed" /\ pcB = "done_ok"
    /\ daemon = "running" /\ startResult = "ok"


\* Task B between the grant of its read guard and the publication
SharedPhase == {"have_read", "tray_found", "formatted"}

\* C18: Task B reads the peer id and publishes under one hold of the read
\* guard: from the grant to the publication it holds the guard, no writer
\* holds the handle and the daemon state and peer id do not change, so
\* the title set is "Online: " followed by the short form of the peer id
\* the manager has at the moment of publication.
C18_PublishedIdIsCurrent ==
    /\ [](pcB \in SharedPhase =>
            /\ TaskB \in lockReaders /\ lockWriter = NoOne
            /\ \A h \in Handlers : pcH[h] # "writing")
    /\ [](pcB = "formatted" =>
            shortId = short_id(unwrap_or_default(peerId)))
    /\ [][(pcB \in SharedPhase) => (daemon' = daemon /\ peerId' = peerId)]_vars
    /\ [][title' # title =>
            /\ pcB = "formatted" /\ TaskB \in lockReaders
            /\ peerId' = peerId
            /\ title' = OnlineTitle(short_id(unwrap_or_default(peerId)).out)]_vars

\* a handler changed the identity after Task B released the write guard
\* and before it was granted the read guard: the title shows the new one
C18_Witness ==
    /\ pcB = "done_ok" /\ publish = "ok"
    /\ peerId = Some(RotatedPeerId)
    /\ title = OnlineTitle(short_id(RotatedPeerId).out)

====
